---- MODULE Spec2Model ----
(***************************************************************************)
(* Model of the recurring-task scheduler of pghq/go-museum                 *)
(* (package scheduler: Scheduler, Task, TaskSchedule).                     *)
(*                                                                         *)
(* Time is an integer clock; 0 is the zero time.Time.  A recurrence rule   *)
(* is what rrule.StrToRRule returns for a string that carries its own      *)
(* DTSTART: a first occurrence, one occurrence per clock unit after it, an  *)
(* occurrence cap (0 = none) and a series end.                             *)
(***************************************************************************)
EXTENDS Integers, Sequences, FiniteSets, TLC

\* ------------------------------------------------------------------ bounds
MaxTime == 3        \* the clock runs over 1..MaxTime
MaxUnits == 2       \* dispatch goroutines tracked per task
MaxAdds == 2        \* Add calls made by the callers
MaxSetRec == 1      \* SetRecurrence calls made after construction
MaxMsgs == 2        \* messages the worker handler dequeues

\* ------------------------------------------------------- program constants
LockCap == 1        \* make(chan struct{}, 1) in NewTask
StopCap == 1        \* make(chan struct{}, 1) in New

\* ------------------------------------------------------------ task objects
\* Task objects built by NewTask; t1 and t2 carry the same id, t0 the empty id.
Tasks == {"t0", "t1", "t2", "t3"}
\* the keys a ledger can hold
Ids == {"", "a", "b"}
Id(t) == CASE t = "t0" -> "" [] t = "t3" -> "b" [] OTHER -> "a"
NoTask == "nil"
Callers == {"c1", "c2"}
\* The argument lists the callers pass to Add.
AddInputs == {<<"t1">>, <<"t2">>, <<"t3">>}

\* --------------------------------------------------------- recurrence rules
NoUntil == MaxTime + 1      \* dtstart + 290 years: later than every clock value
RuleStrings == {"COUNT=2", "UNTIL=2", "bad"}

\* rrule.StrToRRule: the parsed rule, or err.
StrToRRule(s) ==
    CASE s = "COUNT=2" -> [err |-> FALSE, dtstart |-> 2, count |-> 2, until |-> NoUntil]
      [] s = "UNTIL=2" -> [err |-> FALSE, dtstart |-> 1, count |-> 0, until |-> 2]
      [] OTHER         -> [err |-> TRUE,  dtstart |-> 0, count |-> 0, until |-> 0]

\* The occurrences of a rule: from dtstart on, at most count of them, none after until.
Occurrences(rule) ==
    {o \in 1..MaxTime : /\ o >= rule.dtstart
                        /\ o <= rule.until
                        /\ (rule.count = 0 \/ o < rule.dtstart + rule.count)}

Max(S) == CHOOSE x \in S : \A y \in S : y <= x

\* rule.Before(dt, true): the latest occurrence at or before dt, the zero time if none.
Before(rule, dt) ==
    LET past == {o \in Occurrences(rule) : o <= dt}
    IN  IF past = {} THEN 0 ELSE Max(past)

VARIABLES
    clock,      \* time.Now()
    tasks,      \* Scheduler.tasks: id -> Task object (NoTask: no entry)
    lock,       \* Task.lock: tokens in the channel
    Schedule,   \* Task.Schedule: Recurrence, Count, UpdatedAt
    unit,       \* the dispatch goroutines of each task: pc, captured now, Enqueue error
    dsweep,     \* the dispatch loop: pc, now, tasks left in the range
    rsweep,     \* the retirement loop: pc, task received from completed
    life,       \* Start(): pc of Start, of start(ctx), of the waiter; ctx; wg
    stop,       \* Scheduler.stop: signals in the buffer
    adder,      \* the callers of Add: pc and remaining arguments
    enqueued,   \* the queue: successful Enqueue calls per task
    hist,       \* history: calls and hand-offs that have happened
    worker      \* the handler of Worker(job) and the goroutines of its messages

vars == <<clock, tasks, lock, Schedule, unit, dsweep, rsweep, life, stop, adder,
          enqueued, hist, worker>>

Slots == 1..MaxUnits
\* preStop: the goroutine was started before the first call of Stop
NoUnit == [pc |-> "none", now |-> 0, err |-> FALSE, canceled |-> FALSE, preStop |-> FALSE]

\* The messages the handler of Worker dequeues, in the order of their Dequeue calls,
\* and the goroutine of a message: pc, whether the payload decodes, the calls of job
\* and of msg.Ack, whether Ack failed, the calls of notifyWorker(msg).
Msgs == 1..MaxMsgs
NoHandler == [pc |-> "none", decodes |-> FALSE, jobs |-> 0, acks |-> 0, ackErr |-> FALSE,
              notes |-> 0]
\* The handler before the worker runs it.  notify: s.notifyWorker != nil; n: messages
\* dequeued; calls, failed: Dequeue calls and those that returned an error; fatal: the
\* last error was fatal; sent: dequeue errors passed to errors.Send; nilNotes: calls
\* of notifyWorker(nil).
IdleWorker ==
    [pc |-> "off", notify |-> FALSE, n |-> 0, calls |-> 0, failed |-> 0, fatal |-> FALSE,
     sent |-> 0, nilNotes |-> 0, msg |-> [m \in Msgs |-> NoHandler]]

\* ------------------------------------------------------------------- Task
\* the lock field of a Task that NewTask did not build: a nil channel
NilLock == -1

\* Task.Lock on a channel holding n tokens: (acquired, tokens afterwards).  A
\* receive from a nil channel is never ready: the select takes default.
LockTakesNothing(n) == [ok |-> TRUE, n |-> n]
Lock(n) ==
    IF n > 0 THEN [ok |-> TRUE, n |-> n - 1] ELSE [ok |-> FALSE, n |-> n]

\* Task.Unlock on a channel holding n tokens: the tokens afterwards.  A send on a
\* nil channel is never ready: the select takes default.
UnlockAlwaysSends(n) == n + 1
Unlock(n) == IF n # NilLock /\ n < LockCap THEN n + 1 ELSE n

\* NewTask: the tokens in the lock of a new task, make(chan struct{}, 1) then t.Unlock()
NewTask == Unlock(0)

\* Task.CanSchedule(now)
CanScheduleEveryTick(t, now) ==
    LET s == Schedule[t]
        rule == StrToRRule(s.Recurrence)
    IN  IF s.Recurrence = "" THEN s.Count = 0
        ELSE IF ~rule.err
             THEN /\ ~(rule.count # 0 /\ s.Count >= rule.count)
                  /\ ~(now > rule.until)
             ELSE FALSE
CanScheduleFailsOpen(t, now) ==
    LET s == Schedule[t]
        rule == StrToRRule(s.Recurrence)
    IN  IF s.Recurrence = "" THEN s.Count = 0
        ELSE IF ~rule.err
             THEN /\ ~(rule.count # 0 /\ s.Count >= rule.count)
                  /\ ~(now > rule.until)
                  /\ Before(rule, now) # Before(rule, s.UpdatedAt)
             ELSE TRUE
CanScheduleIgnoresCount(t, now) ==
    LET s == Schedule[t]
        rule == StrToRRule(s.Recurrence)
    IN  IF s.Recurrence = "" THEN TRUE
        ELSE IF ~rule.err
             THEN /\ ~(now > rule.until)
                  /\ Before(rule, now) # Before(rule, s.UpdatedAt)
             ELSE FALSE
CanSchedule(t, now) ==
    LET s == Schedule[t]
        rule == StrToRRule(s.Recurrence)
    IN  IF s.Recurrence = "" THEN s.Count = 0
        ELSE IF ~rule.err
             THEN /\ ~(rule.count # 0 /\ s.Count >= rule.count)
                  /\ ~(now > rule.until)
                  /\ Before(rule, now) # Before(rule, s.UpdatedAt)
             ELSE FALSE

\* Task.MarkScheduled(at): the schedule afterwards.
MarkScheduledCountOnly(t, at) == [Schedule EXCEPT ![t].Count = @ + 1]
MarkScheduled(t, at) ==
    [Schedule EXCEPT ![t].Count = @ + 1, ![t].UpdatedAt = at]

\* Task.IsComplete(), evaluated at time.Now() = now.
IsCompleteAfterCap(t, now) ==
    LET s == Schedule[t]
        rule == StrToRRule(s.Recurrence)
    IN  IF s.Recurrence = "" THEN s.Count # 0
        ELSE IF ~rule.err
             THEN \/ (rule.count # 0 /\ s.Count > rule.count)
                  \/ now > rule.until
             ELSE TRUE
IsComplete(t, now) ==
    LET s == Schedule[t]
        rule == StrToRRule(s.Recurrence)
    IN  IF s.Recurrence = "" THEN s.Count # 0
        ELSE IF ~rule.err
             THEN \/ (rule.count # 0 /\ s.Count >= rule.count)
                  \/ now > rule.until
             ELSE TRUE

\* The lock history of a task after a Lock() call and after an Unlock() call.
\* wins: Lock() calls that returned true since the last Unlock() (counted up to 2);
\* lost: some Lock() call has returned false since the last Unlock().
HistLock(t, ok) ==
    IF ok THEN [hist EXCEPT !.wins[t] = IF @ < 2 THEN @ + 1 ELSE @]
    ELSE [hist EXCEPT !.lost[t] = TRUE]
HistUnlock(h, t) == [h EXCEPT !.lost[t] = FALSE, !.wins[t] = 0]

\* owed: task locks the dispatch sweep has acquired minus the notify calls it has
\* made for the task (a notify callback is configured).
Acquired(h, t) == [h EXCEPT !.owed[t] = @ + 1]

\* if s.notify != nil { go s.notify(task) }
NotifyNothing(h, t) == h
Notify(h, t) == [h EXCEPT !.owed[t] = @ - 1]

\* Task.Lock() called by a user of the task
LockCall(t) ==
    /\ lock' = [lock EXCEPT ![t] = Lock(@).n]
    /\ hist' = HistLock(t, Lock(lock[t]).ok)
    /\ UNCHANGED <<clock, tasks, Schedule, unit, dsweep, rsweep, life, stop, adder,
                   enqueued, worker>>

\* unlocks: the Unlock() calls users made in a row (counted up to 2) before the
\* Lock() calls made since.
HistUnlockCall(t) ==
    [HistUnlock(hist, t) EXCEPT
        !.unlocks[t] = IF hist.wins[t] > 0 \/ hist.lost[t] THEN 1
                       ELSE IF @ < 2 THEN @ + 1 ELSE @]

\* Task.Unlock() called by a user of the task
UnlockCall(t) ==
    /\ lock' = [lock EXCEPT ![t] = Unlock(@)]
    /\ hist' = HistUnlockCall(t)
    /\ UNCHANGED <<clock, tasks, Schedule, unit, dsweep, rsweep, life, stop, adder,
                   enqueued, worker>>

\* -------------------------------------------------------------- Scheduler
\* Scheduler.Stop on a buffer holding n signals: the signals afterwards.
StopSendUnbuffered(n) == n
StopSend(n) == IF n < StopCap THEN n + 1 ELSE n

\* The ledger's write lock is free: the dispatch sweep holds no read lock.
WriteLockFree == dsweep.pc # "range"

InFlight(t) == {k \in Slots : unit[t][k].pc # "none"}
FreeSlot(t) == CHOOSE k \in Slots \ InFlight(t) : \A j \in Slots \ InFlight(t) : k <= j
Offering == {t \in Tasks : \E k \in Slots : unit[t][k].pc = "send"}

\* no payload of the task has been written to the queue
NoPayload == [Count |-> -1, UpdatedAt |-> 0]

\* The state after New, the task objects built with the lock channels locks and
\* given the schedules sched, Add of the tasks in ledger and, when running, Start
\* up to its first <-s.stop with both loops launched.
SetupWith(ledger, sched, locks, running) ==
    /\ clock = 1
    /\ tasks = ledger
    /\ lock = locks
    /\ Schedule = sched
    /\ unit = [t \in Tasks |-> [k \in Slots |-> NoUnit]]
    /\ dsweep = [pc |-> IF running THEN "select" ELSE "off", now |-> 0, todo |-> {},
                 skip |-> {}]
    /\ rsweep = [pc |-> IF running THEN "select" ELSE "off", task |-> NoTask]
    /\ life = IF running
              THEN [start |-> "wait1", run |-> "wait", waiter |-> "none",
                    ctxDone |-> FALSE, wg |-> 1]
              ELSE [start |-> "created", run |-> "none", waiter |-> "none",
                    ctxDone |-> FALSE, wg |-> 0]
    /\ stop = 0
    /\ adder = [c \in Callers |-> [pc |-> "idle", args |-> <<>>, log |-> "", task |-> NoTask]]
    /\ enqueued = [t \in Tasks |-> 0]
    /\ hist = [stopReq |-> "never", nStops |-> 0, dropped |-> FALSE, observed |-> {},
               wins |-> [t \in Tasks |-> 0], lost |-> [t \in Tasks |-> FALSE],
               nAdds |-> 0, nSetRec |-> 0, setErr |-> FALSE,
               owed |-> [t \in Tasks |-> 0], unlocks |-> [t \in Tasks |-> 0],
               lateStop |-> FALSE, sent |-> [t \in Tasks |-> NoPayload]]
    /\ worker = IdleWorker

\* The same with new schedules: SetRecurrence(recs[t]) on the tasks that have one.
Setup(ledger, recs, running) ==
    SetupWith(ledger,
              [t \in Tasks |-> [Recurrence |-> recs[t], Count |-> 0, UpdatedAt |-> 0]],
              [t \in Tasks |-> NewTask],
              running)

EmptyLedger == [i \in Ids |-> NoTask]
OneShots == [t \in Tasks |-> ""]

\* New(queue) and NewTask(id) for every task object: nothing registered, not started.
Init == Setup(EmptyLedger, OneShots, FALSE)

\* time passes
ClockTick ==
    /\ clock < MaxTime
    /\ clock' = clock + 1
    /\ UNCHANGED <<tasks, lock, Schedule, unit, dsweep, rsweep, life, stop, adder,
                   enqueued, hist, worker>>

\* Scheduler.Start up to the first <-s.stop
StartCall ==
    /\ life.start = "created"
    /\ life' = [life EXCEPT !.start = "wait1", !.run = "init", !.wg = @ + 1]
    /\ UNCHANGED <<clock, tasks, lock, Schedule, unit, dsweep, rsweep, stop, adder,
                   enqueued, hist, worker>>

\* Scheduler.start: launches the two loops, then waits for ctx.Done()
RunInit ==
    /\ life.run = "init"
    /\ life' = [life EXCEPT !.run = "wait"]
    /\ dsweep' = [dsweep EXCEPT !.pc = IF life.ctxDone THEN "done" ELSE "select"]
    /\ rsweep' = [rsweep EXCEPT !.pc = IF life.ctxDone THEN "done" ELSE "select"]
    /\ UNCHANGED <<clock, tasks, lock, Schedule, unit, stop, adder, enqueued, hist,
                   worker>>

\* Scheduler.start returns on ctx.Done(): the deferred s.wg.Done()
RunExitWithoutDone ==
    /\ life.run = "wait"
    /\ life.ctxDone
    /\ life' = [life EXCEPT !.run = "done"]
    /\ UNCHANGED <<clock, tasks, lock, Schedule, unit, dsweep, rsweep, stop, adder,
                   enqueued, hist, worker>>
RunExit ==
    /\ life.run = "wait"
    /\ life.ctxDone
    /\ life' = [life EXCEPT !.run = "done", !.wg = @ - 1]
    /\ UNCHANGED <<clock, tasks, lock, Schedule, unit, dsweep, rsweep, stop, adder,
                   enqueued, hist, worker>>

\* Scheduler.Start: the first <-s.stop, cancel(), go func() { wg.Wait(); Stop() }
StartRecv1 ==
    /\ life.start = "wait1"
    /\ stop > 0
    /\ stop' = stop - 1
    /\ life' = [life EXCEPT !.start = "wait2", !.ctxDone = TRUE, !.waiter = "wait"]
    /\ UNCHANGED <<clock, tasks, lock, Schedule, unit, dsweep, rsweep, adder,
                   enqueued, hist, worker>>

\* the goroutine of Start: s.wg.Wait() returns, s.Stop()
WaiterStop ==
    /\ life.waiter = "wait"
    /\ life.wg = 0
    /\ stop' = StopSend(stop)
    /\ life' = [life EXCEPT !.waiter = "done"]
    /\ UNCHANGED <<clock, tasks, lock, Schedule, unit, dsweep, rsweep, adder,
                   enqueued, hist, worker>>

\* Scheduler.Start: the second <-s.stop, then Start returns
StartRecv2 ==
    /\ life.start = "wait2"
    /\ stop > 0
    /\ stop' = stop - 1
    /\ life' = [life EXCEPT !.start = "returned"]
    /\ UNCHANGED <<clock, tasks, lock, Schedule, unit, dsweep, rsweep, adder,
                   enqueued, hist, worker>>

\* stopReq: where Start was when Stop was first called; nStops: the calls of Stop by
\* users (0, 1, or 2 for more than one); dropped: some Stop call found the buffer full;
\* lateStop: some Stop call was made after Start had returned.
HistStop ==
    [hist EXCEPT !.stopReq = IF @ = "never" THEN life.start ELSE @,
                 !.nStops = IF @ < 2 THEN @ + 1 ELSE @,
                 !.dropped = @ \/ stop = StopCap,
                 !.lateStop = @ \/ life.start = "returned"]

\* Scheduler.Stop called by a user of the scheduler
StopWithoutDefault ==
    /\ stop < StopCap
    /\ stop' = stop + 1
    /\ hist' = HistStop
    /\ UNCHANGED <<clock, tasks, lock, Schedule, unit, dsweep, rsweep, life, adder,
                   enqueued, worker>>
Stop ==
    /\ stop' = StopSend(stop)
    /\ hist' = HistStop
    /\ UNCHANGED <<clock, tasks, lock, Schedule, unit, dsweep, rsweep, life, adder,
                   enqueued, worker>>

\* ------------------------------------------------------------ Scheduler.Add
\* the loop of Add moves to its next argument
AddContinue(c, log) ==
    LET rest == Tail(adder[c].args)
    IN  [pc |-> IF rest = <<>> THEN "idle" ELSE "check", args |-> rest,
         log |-> log, task |-> Head(adder[c].args)]

\* if task.Id == "" { continue }
IdIsEmptyNever(t) == FALSE
IdIsEmpty(t) == Id(t) = ""

\* _, present := s.tasks[task.Id]
PresentNever(t) == FALSE
Present(t) == tasks[Id(t)] # NoTask

AddCall(c, args) ==
    /\ adder[c].pc = "idle"
    /\ hist.nAdds < MaxAdds
    /\ adder' = [adder EXCEPT ![c].pc = "check", ![c].args = args]
    /\ hist' = [hist EXCEPT !.nAdds = @ + 1]
    /\ UNCHANGED <<clock, tasks, lock, Schedule, unit, dsweep, rsweep, life, stop,
                   enqueued, worker>>

\* Add: the empty-id test, then the lookup under the read lock
AddCheck(c) ==
    /\ adder[c].pc = "check"
    /\ LET t == Head(adder[c].args)
       IN  adder' = [adder EXCEPT ![c] =
                IF IdIsEmpty(t) THEN AddContinue(c, "skipped")
                ELSE IF Present(t) THEN AddContinue(c, "already")
                ELSE [@ EXCEPT !.pc = "write"]]
    /\ UNCHANGED <<clock, tasks, lock, Schedule, unit, dsweep, rsweep, life, stop,
                   enqueued, hist, worker>>

\* Add: the store under the write lock
AddWrite(c) ==
    /\ adder[c].pc = "write"
    /\ WriteLockFree
    /\ LET t == Head(adder[c].args)
       IN  tasks' = [tasks EXCEPT ![Id(t)] = t]
    /\ adder' = [adder EXCEPT ![c] = AddContinue(c, "added")]
    /\ UNCHANGED <<clock, lock, Schedule, unit, dsweep, rsweep, life, stop,
                   enqueued, hist, worker>>

\* --------------------------------------------------------- Task.SetRecurrence
\* hist.setErr: the last call returned errors.BadRequest(err)
SetRecurrenceUnchecked(t, rfc) ==
    /\ hist.nSetRec < MaxSetRec
    /\ hist' = [hist EXCEPT !.nSetRec = @ + 1, !.setErr = FALSE]
    /\ Schedule' = [Schedule EXCEPT ![t].Recurrence = rfc]
    /\ UNCHANGED <<clock, tasks, lock, unit, dsweep, rsweep, life, stop, adder,
                   enqueued, worker>>
SetRecurrence(t, rfc) ==
    /\ hist.nSetRec < MaxSetRec
    /\ hist' = [hist EXCEPT !.nSetRec = @ + 1, !.setErr = StrToRRule(rfc).err]
    /\ Schedule' = IF StrToRRule(rfc).err THEN Schedule
                   ELSE [Schedule EXCEPT ![t].Recurrence = rfc]
    /\ UNCHANGED <<clock, tasks, lock, unit, dsweep, rsweep, life, stop, adder,
                   enqueued, worker>>

\* ------------------------------------------------------- the dispatch sweep
\* the loop after an iteration, back at its select
BackToSelect == IF life.ctxDone THEN "done" ELSE "select"

\* a sweep that dispatches inline: the next tick waits for the goroutines
DispatchTickAfterUnits ==
    /\ dsweep.pc = "select"
    /\ \A t \in Tasks : InFlight(t) = {}
    /\ dsweep' = [pc |-> "range", now |-> clock,
                  todo |-> {tasks[i] : i \in Ids} \ {NoTask}, skip |-> {}]
    /\ UNCHANGED <<clock, tasks, lock, Schedule, unit, rsweep, life, stop, adder,
                   enqueued, hist, worker>>

\* the timer fires: now := time.Now(), s.lock.RLock(), range s.tasks
DispatchTick ==
    /\ dsweep.pc = "select"
    /\ dsweep' = [pc |-> "range", now |-> clock,
                  todo |-> {tasks[i] : i \in Ids} \ {NoTask}, skip |-> {}]
    /\ UNCHANGED <<clock, tasks, lock, Schedule, unit, rsweep, life, stop, adder,
                   enqueued, hist, worker>>

\* ctx.Done() in the select of the dispatch loop
DispatchExit ==
    /\ dsweep.pc = "select"
    /\ life.ctxDone
    /\ dsweep' = [dsweep EXCEPT !.pc = "done"]
    /\ UNCHANGED <<clock, tasks, lock, Schedule, unit, rsweep, life, stop, adder,
                   enqueued, hist, worker>>

\* one iteration of the range: Lock, CanSchedule, then Unlock or go func(task)
DispatchTask(t) ==
    /\ dsweep.pc = "range"
    /\ t \in dsweep.todo
    /\ LET l == Lock(lock[t])
       IN  IF ~l.ok
           THEN /\ hist' = HistLock(t, FALSE)
                /\ dsweep' = [dsweep EXCEPT !.todo = @ \ {t}]
                /\ UNCHANGED <<lock, unit>>
           ELSE IF ~CanSchedule(t, dsweep.now)
           THEN /\ lock' = [lock EXCEPT ![t] = Unlock(l.n)]
                /\ hist' = Notify(HistUnlock(Acquired(HistLock(t, TRUE), t), t), t)
                /\ dsweep' = [dsweep EXCEPT !.todo = @ \ {t}, !.skip = @ \cup {t}]
                /\ UNCHANGED unit
           ELSE /\ InFlight(t) # Slots
                /\ lock' = [lock EXCEPT ![t] = l.n]
                /\ hist' = Acquired(HistLock(t, TRUE), t)
                /\ dsweep' = [dsweep EXCEPT !.todo = @ \ {t}]
                /\ unit' = [unit EXCEPT ![t][FreeSlot(t)] =
                                [NoUnit EXCEPT !.pc = "enq", !.now = dsweep.now,
                                               !.preStop = (hist.stopReq = "never")]]
    /\ UNCHANGED <<clock, tasks, Schedule, rsweep, life, stop, adder, enqueued, worker>>

\* the range is over: s.lock.RUnlock()
DispatchEnd ==
    /\ dsweep.pc = "range"
    /\ dsweep.todo = {}
    /\ dsweep' = [dsweep EXCEPT !.pc = BackToSelect, !.skip = {}]
    /\ UNCHANGED <<clock, tasks, lock, Schedule, unit, rsweep, life, stop, adder,
                   enqueued, hist, worker>>

\* ------------------------------------------------- the dispatch goroutine
\* if err != nil { errors.Send(err); return }: where the goroutine goes next
AfterEnqueueNoReturn(err) == "mark"
AfterEnqueue(err) == IF err THEN "done" ELSE "mark"

\* the payload of s.queue.Enqueue(ctx, task.Id, task): the task as it is encoded
\* during the call (count and updatedAt of its schedule)
Payload(t) == [Count |-> Schedule[t].Count, UpdatedAt |-> Schedule[t].UpdatedAt]

\* s.queue.Enqueue returns: nil, or an error (timeout, backend); hist.sent is the
\* payload of the task's last successful Enqueue
UnitEnqueue(t, k, ok) ==
    /\ unit[t][k].pc = "enq"
    /\ unit' = [unit EXCEPT ![t][k].pc = AfterEnqueue(~ok), ![t][k].err = ~ok]
    /\ enqueued' = IF ok THEN [enqueued EXCEPT ![t] = @ + 1] ELSE enqueued
    /\ hist' = IF ok THEN [hist EXCEPT !.sent[t] = Payload(t)] ELSE hist
    /\ UNCHANGED <<clock, tasks, lock, Schedule, dsweep, rsweep, life, stop, adder,
                   worker>>

\* s.queue.Enqueue returns the error of its context, which context.WithTimeout derived
\* from the ctx of start: cancel() in Start has ended it
UnitEnqueueCanceled(t, k) ==
    /\ unit[t][k].pc = "enq"
    /\ life.ctxDone
    /\ unit' = [unit EXCEPT ![t][k].pc = AfterEnqueue(TRUE), ![t][k].err = TRUE,
                            ![t][k].canceled = TRUE]
    /\ UNCHANGED <<clock, tasks, lock, Schedule, dsweep, rsweep, life, stop, adder,
                   enqueued, hist, worker>>

\* task.MarkScheduled(now)
UnitMark(t, k) ==
    /\ unit[t][k].pc = "mark"
    /\ Schedule' = MarkScheduled(t, unit[t][k].now)
    /\ unit' = [unit EXCEPT ![t][k].pc = "check"]
    /\ UNCHANGED <<clock, tasks, lock, dsweep, rsweep, life, stop, adder, enqueued,
                   hist, worker>>

\* if task.IsComplete(): the goroutine goes on to s.completed <- task
UnitCheck(t, k) ==
    /\ unit[t][k].pc = "check"
    /\ unit' = [unit EXCEPT ![t][k].pc = IF IsComplete(t, clock) THEN "send" ELSE "done"]
    /\ UNCHANGED <<clock, tasks, lock, Schedule, dsweep, rsweep, life, stop, adder,
                   enqueued, hist, worker>>

\* the deferred function: task.Unlock()
UnitExit(t, k) ==
    /\ unit[t][k].pc = "done"
    /\ lock' = [lock EXCEPT ![t] = Unlock(@)]
    /\ hist' = Notify(HistUnlock(hist, t), t)
    /\ unit' = [unit EXCEPT ![t][k] = NoUnit]
    /\ UNCHANGED <<clock, tasks, Schedule, dsweep, rsweep, life, stop, adder,
                   enqueued, worker>>

\* ----------------------------------------------------- the retirement sweep
\* the timer fires
RetireTick ==
    /\ rsweep.pc = "select"
    /\ rsweep' = [rsweep EXCEPT !.pc = "drain"]
    /\ UNCHANGED <<clock, tasks, lock, Schedule, unit, dsweep, life, stop, adder,
                   enqueued, hist, worker>>

\* ctx.Done() in the select of the retirement loop
RetireExit ==
    /\ rsweep.pc = "select"
    /\ life.ctxDone
    /\ rsweep' = [rsweep EXCEPT !.pc = "done"]
    /\ UNCHANGED <<clock, tasks, lock, Schedule, unit, dsweep, life, stop, adder,
                   enqueued, hist, worker>>

\* case task := <-s.completed: the rendezvous with a goroutine at s.completed <- task
RetireRecv(t, k) ==
    /\ rsweep.pc = "drain"
    /\ unit[t][k].pc = "send"
    /\ unit' = [unit EXCEPT ![t][k].pc = "done"]
    /\ rsweep' = [pc |-> "delete", task |-> t]
    /\ hist' = [hist EXCEPT !.observed = @ \cup {t}]
    /\ UNCHANGED <<clock, tasks, lock, Schedule, dsweep, life, stop, adder, enqueued,
                   worker>>

\* s.lock.Lock(); delete(s.tasks, task.Id); s.lock.Unlock()
RetireDeleteNothing ==
    /\ rsweep.pc = "delete"
    /\ WriteLockFree
    /\ rsweep' = [pc |-> "drain", task |-> NoTask]
    /\ UNCHANGED <<clock, tasks, lock, Schedule, unit, dsweep, life, stop, adder,
                   enqueued, hist, worker>>
RetireDelete ==
    /\ rsweep.pc = "delete"
    /\ WriteLockFree
    /\ tasks' = [tasks EXCEPT ![Id(rsweep.task)] = NoTask]
    /\ rsweep' = [pc |-> "drain", task |-> NoTask]
    /\ UNCHANGED <<clock, lock, Schedule, unit, dsweep, life, stop, adder, enqueued,
                   hist, worker>>

\* a select without the default case: the loop waits for the next task
RetireWithoutDefault ==
    /\ FALSE
    /\ UNCHANGED vars

\* default: nothing is offered on s.completed, removing = false
RetireDefault ==
    /\ rsweep.pc = "drain"
    /\ Offering = {}
    /\ rsweep' = [rsweep EXCEPT !.pc = BackToSelect]
    /\ UNCHANGED <<clock, tasks, lock, Schedule, unit, dsweep, life, stop, adder,
                   enqueued, hist, worker>>

\* --------------------------------------------------------- Scheduler.Worker
\* the worker runs the handler h; NotifyWorker was called before or was not
WorkerStart(notify) ==
    /\ worker.pc = "off"
    /\ worker' = [worker EXCEPT !.pc = "loop", !.notify = notify]
    /\ UNCHANGED <<clock, tasks, lock, Schedule, unit, dsweep, rsweep, life, stop, adder,
                   enqueued, hist>>

\* what s.queue.Dequeue returns: a message whose payload is a Task, a message whose
\* payload does not decode, a timeout (not fatal) or a fatal error
DequeueResults == {"task", "garbage", "timeout", "fatal"}

\* if err != nil { ...; break }: where the handler goes after a Dequeue error
AfterDequeueErrorRetries == "loop"
AfterDequeueError == "finished"

\* one iteration of the loop of h: Dequeue, then the error branch or go func()
WorkerDequeue(res) ==
    /\ worker.pc = "loop"
    /\ worker.calls <= MaxMsgs
    /\ IF res \in {"task", "garbage"}
       THEN /\ worker.n < MaxMsgs
            /\ worker' = [worker EXCEPT
                    !.calls = @ + 1,
                    !.n = @ + 1,
                    !.msg[worker.n + 1] =
                        [NoHandler EXCEPT !.pc = "decode", !.decodes = (res = "task")]]
       ELSE worker' = [worker EXCEPT
                    !.calls = @ + 1,
                    !.failed = @ + 1,
                    !.fatal = (res = "fatal"),
                    !.sent = IF res = "fatal" THEN @ + 1 ELSE @,
                    !.nilNotes = IF worker.notify THEN @ + 1 ELSE @,
                    !.pc = AfterDequeueError]
    /\ UNCHANGED <<clock, tasks, lock, Schedule, unit, dsweep, rsweep, life, stop, adder,
                   enqueued, hist>>

\* if err := msg.Decode(&task); err != nil { errors.Send(err); return }
AfterDecodeNoReturn(err) == "job"
AfterDecodeSkipsJob(err) == "ack"
AfterDecode(err) == IF err THEN "ack" ELSE "job"

\* the goroutine of message m: msg.Decode(&task)
HandlerDecode(m) ==
    /\ worker.msg[m].pc = "decode"
    /\ worker' = [worker EXCEPT !.msg[m].pc = AfterDecode(~worker.msg[m].decodes)]
    /\ UNCHANGED <<clock, tasks, lock, Schedule, unit, dsweep, rsweep, life, stop, adder,
                   enqueued, hist>>

\* the goroutine of message m: job(&task) returns
HandlerJob(m) ==
    /\ worker.msg[m].pc = "job"
    /\ worker' = [worker EXCEPT !.msg[m].pc = "ack", !.msg[m].jobs = @ + 1]
    /\ UNCHANGED <<clock, tasks, lock, Schedule, unit, dsweep, rsweep, life, stop, adder,
                   enqueued, hist>>

\* the deferred function of the goroutine of message m: msg.Ack(ctx) returns nil or
\* an error, then go s.notifyWorker(msg)
HandlerAck(m, ok) ==
    /\ worker.msg[m].pc = "ack"
    /\ worker' = [worker EXCEPT
            !.msg[m].pc = "done",
            !.msg[m].acks = @ + 1,
            !.msg[m].ackErr = ~ok,
            !.msg[m].notes = IF worker.notify THEN @ + 1 ELSE @]
    /\ UNCHANGED <<clock, tasks, lock, Schedule, unit, dsweep, rsweep, life, stop, adder,
                   enqueued, hist>>

\* ------------------------------------------------------------ specification
Next ==
    \/ ClockTick
    \/ StartCall
    \/ RunInit
    \/ RunExit
    \/ StartRecv1
    \/ WaiterStop
    \/ StartRecv2
    \/ Stop
    \/ \E t \in Tasks : LockCall(t)
    \/ \E t \in Tasks : UnlockCall(t)
    \/ \E c \in Callers, args \in AddInputs : AddCall(c, args)
    \/ \E c \in Callers : AddCheck(c)
    \/ \E c \in Callers : AddWrite(c)
    \/ \E t \in Tasks, rfc \in RuleStrings : SetRecurrence(t, rfc)
    \/ DispatchTick
    \/ DispatchExit
    \/ \E t \in Tasks : DispatchTask(t)
    \/ DispatchEnd
    \/ \E t \in Tasks, k \in Slots, ok \in BOOLEAN : UnitEnqueue(t, k, ok)
    \/ \E t \in Tasks, k \in Slots : UnitEnqueueCanceled(t, k)
    \/ \E t \in Tasks, k \in Slots : UnitMark(t, k)
    \/ \E t \in Tasks, k \in Slots : UnitCheck(t, k)
    \/ \E t \in Tasks, k \in Slots : UnitExit(t, k)
    \/ RetireTick
    \/ RetireExit
    \/ \E t \in Tasks, k \in Slots : RetireRecv(t, k)
    \/ RetireDelete
    \/ RetireDefault
    \/ \E notify \in BOOLEAN : WorkerStart(notify)
    \/ \E res \in DequeueResults : WorkerDequeue(res)
    \/ \E m \in Msgs : HandlerDecode(m)
    \/ \E m \in Msgs : HandlerJob(m)
    \/ \E m \in Msgs, ok \in BOOLEAN : HandlerAck(m, ok)

Spec == Init /\ [][Next]_vars

\* ------------------------------------------------- the scheduler while running
\* t1 and t3 are registered, each one-shot or with a valid rule; Start is waiting for
\* its stop signal.
InitRun ==
    \E r1 \in {"", "COUNT=2", "UNTIL=2"}, r3 \in {"", "COUNT=2"} :
        Setup([i \in Ids |-> CASE i = "a" -> "t1" [] i = "b" -> "t3" [] OTHER -> NoTask],
              [t \in Tasks |-> IF t = "t1" THEN r1 ELSE IF t = "t3" THEN r3 ELSE ""],
              TRUE)

NextRun ==
    \/ ClockTick
    \/ DispatchTick
    \/ \E t \in Tasks : DispatchTask(t)
    \/ DispatchEnd
    \/ \E t \in Tasks, k \in Slots, ok \in BOOLEAN : UnitEnqueue(t, k, ok)
    \/ \E t \in Tasks, k \in Slots : UnitMark(t, k)
    \/ \E t \in Tasks, k \in Slots : UnitCheck(t, k)
    \/ \E t \in Tasks, k \in Slots : UnitExit(t, k)
    \/ RetireTick
    \/ \E t \in Tasks, k \in Slots : RetireRecv(t, k)
    \/ RetireDelete
    \/ RetireDefault

SpecRun == InitRun /\ [][NextRun]_vars

\* ---------------------------------- a recurrence stored without SetRecurrence
\* As before, but t3's Schedule.Recurrence was assigned a string that does not
\* parse (the field is exported, and decoding a task fills it unchecked).
InitBad ==
    \E r1 \in {"", "COUNT=2", "UNTIL=2"} :
        Setup([i \in Ids |-> CASE i = "a" -> "t1" [] i = "b" -> "t3" [] OTHER -> NoTask],
              [t \in Tasks |-> IF t = "t1" THEN r1 ELSE IF t = "t3" THEN "bad" ELSE ""],
              TRUE)

SpecBad == InitBad /\ [][NextRun]_vars

\* ------------------------------------- tasks registered with a spent schedule
\* t1 is registered new, one-shot or with an UNTIL rule; t3 is registered with a
\* schedule that has already reached the cap of its rule (the Schedule fields are
\* exported and restored as they were stored).
InitSpent ==
    \E r1 \in {"", "UNTIL=2"} :
        SetupWith([i \in Ids |-> CASE i = "a" -> "t1" [] i = "b" -> "t3" [] OTHER -> NoTask],
                  [t \in Tasks |->
                      IF t = "t3" THEN [Recurrence |-> "COUNT=2", Count |-> 2, UpdatedAt |-> 0]
                      ELSE [Recurrence |-> IF t = "t1" THEN r1 ELSE "",
                            Count |-> 0, UpdatedAt |-> 0]],
                  [t \in Tasks |-> NewTask],
                  TRUE)

SpecSpent == InitSpent /\ [][NextRun]_vars

\* --------------------------------------- a task that NewTask did not build
\* t1 is registered as before; t3 is a Task value made without NewTask (a struct
\* literal, or a task decoded from a payload): its lock channel is nil.  Users call
\* Lock and Unlock on it while the scheduler runs.
InitNil ==
    \E r1 \in {"", "UNTIL=2"} :
        SetupWith([i \in Ids |-> CASE i = "a" -> "t1" [] i = "b" -> "t3" [] OTHER -> NoTask],
                  [t \in Tasks |-> [Recurrence |-> IF t = "t1" THEN r1 ELSE "",
                                    Count |-> 0, UpdatedAt |-> 0]],
                  [t \in Tasks |-> IF t = "t3" THEN NilLock ELSE NewTask],
                  TRUE)

NextNil ==
    \/ LockCall("t3")
    \/ UnlockCall("t3")
    \/ ClockTick
    \/ DispatchTick
    \/ \E t \in Tasks : DispatchTask(t)
    \/ DispatchEnd
    \/ \E t \in Tasks, k \in Slots, ok \in BOOLEAN : UnitEnqueue(t, k, ok)
    \/ \E t \in Tasks, k \in Slots : UnitMark(t, k)
    \/ \E t \in Tasks, k \in Slots : UnitCheck(t, k)
    \/ \E t \in Tasks, k \in Slots : UnitExit(t, k)
    \/ RetireTick
    \/ \E t \in Tasks, k \in Slots : RetireRecv(t, k)
    \/ RetireDelete
    \/ RetireDefault

SpecNil == InitNil /\ [][NextNil]_vars

\* ------------------------------------------- users of Task.Lock and Task.Unlock
\* t1 is registered and the scheduler is running, while users call Lock and Unlock on
\* t1 (registered) and t2 (not registered).
LockUsers == {"t1", "t2"}

InitLock == Setup([i \in Ids |-> IF i = "a" THEN "t1" ELSE NoTask], OneShots, TRUE)

NextLock ==
    \/ \E t \in LockUsers : LockCall(t)
    \/ \E t \in LockUsers : UnlockCall(t)
    \/ DispatchTick
    \/ \E t \in Tasks : DispatchTask(t)
    \/ DispatchEnd
    \/ \E t \in Tasks, k \in Slots, ok \in BOOLEAN : UnitEnqueue(t, k, ok)
    \/ \E t \in Tasks, k \in Slots : UnitMark(t, k)
    \/ \E t \in Tasks, k \in Slots : UnitCheck(t, k)
    \/ \E t \in Tasks, k \in Slots : UnitExit(t, k)
    \/ RetireTick
    \/ \E t \in Tasks, k \in Slots : RetireRecv(t, k)
    \/ RetireDelete
    \/ RetireDefault

SpecLock == InitLock /\ [][NextLock]_vars

\* ----------------------------------------------- registration while running
\* The scheduler is running with an empty ledger; callers register t1 and t2, two
\* task objects with the same id, and change their recurrences while both sweeps run.
RegTasks == {"t1", "t2"}

InitReg == Setup(EmptyLedger, OneShots, TRUE)

NextReg ==
    \/ \E c \in Callers, t \in RegTasks : AddCall(c, <<t>>)
    \/ \E c \in Callers : AddCheck(c)
    \/ \E c \in Callers : AddWrite(c)
    \/ \E t \in RegTasks, rfc \in RuleStrings : SetRecurrence(t, rfc)
    \/ DispatchTick
    \/ \E t \in Tasks : DispatchTask(t)
    \/ DispatchEnd
    \/ \E t \in Tasks, k \in Slots, ok \in BOOLEAN : UnitEnqueue(t, k, ok)
    \/ \E t \in Tasks, k \in Slots : UnitMark(t, k)
    \/ \E t \in Tasks, k \in Slots : UnitCheck(t, k)
    \/ \E t \in Tasks, k \in Slots : UnitExit(t, k)
    \/ RetireTick
    \/ \E t \in Tasks, k \in Slots : RetireRecv(t, k)
    \/ RetireDelete
    \/ RetireDefault

SpecReg == InitReg /\ [][NextReg]_vars

\* ------------------------------------------------- SetRecurrence while running
\* t1 is registered as a one-shot task and the scheduler is running; users call
\* SetRecurrence on t1 and on t2 (not registered) and one of them passes t1 to Add
\* again, while it is registered or after it was retired, while time passes.
RecTasks == {"t1", "t2"}

InitRec == Setup([i \in Ids |-> IF i = "a" THEN "t1" ELSE NoTask], OneShots, TRUE)

NextRec ==
    \/ \E t \in RecTasks, rfc \in RuleStrings : SetRecurrence(t, rfc)
    \/ AddCall("c1", <<"t1">>)
    \/ AddCheck("c1")
    \/ AddWrite("c1")
    \/ ClockTick
    \/ DispatchTick
    \/ \E t \in Tasks : DispatchTask(t)
    \/ DispatchEnd
    \/ \E t \in Tasks, k \in Slots, ok \in BOOLEAN : UnitEnqueue(t, k, ok)
    \/ \E t \in Tasks, k \in Slots : UnitMark(t, k)
    \/ \E t \in Tasks, k \in Slots : UnitCheck(t, k)
    \/ \E t \in Tasks, k \in Slots : UnitExit(t, k)
    \/ RetireTick
    \/ \E t \in Tasks, k \in Slots : RetireRecv(t, k)
    \/ RetireDelete
    \/ RetireDefault

SpecRec == InitRec /\ [][NextRec]_vars

\* ------------------------------------------------ running with a healthy queue
\* t1 (one-shot) and t3 (one-shot or with a rule) are registered, the scheduler keeps
\* running and every Enqueue succeeds.
InitHealthy ==
    \E r3 \in {"", "COUNT=2", "UNTIL=2"} :
        Setup([i \in Ids |-> CASE i = "a" -> "t1" [] i = "b" -> "t3" [] OTHER -> NoTask],
              [t \in Tasks |-> IF t = "t3" THEN r3 ELSE ""], TRUE)

NextHealthy ==
    \/ ClockTick
    \/ DispatchTick
    \/ \E t \in Tasks : DispatchTask(t)
    \/ DispatchEnd
    \/ \E t \in Tasks, k \in Slots : UnitEnqueue(t, k, TRUE)
    \/ \E t \in Tasks, k \in Slots : UnitMark(t, k)
    \/ \E t \in Tasks, k \in Slots : UnitCheck(t, k)
    \/ \E t \in Tasks, k \in Slots : UnitExit(t, k)
    \/ RetireTick
    \/ \E t \in Tasks, k \in Slots : RetireRecv(t, k)
    \/ RetireDelete
    \/ RetireDefault

\* Both timers keep firing and a dispatch goroutine that can run eventually does.  A
\* goroutine blocked in s.lock.Lock() is not overtaken for ever by new readers
\* (sync.RWMutex blocks new RLock calls while a Lock call waits), and a sender blocked
\* on s.completed is served by a receive that is tried again and again.
FairHealthy ==
    /\ WF_vars(DispatchTick)
    /\ WF_vars(\E t \in Tasks : DispatchTask(t))
    /\ WF_vars(DispatchEnd)
    /\ WF_vars(\E t \in Tasks, k \in Slots :
                    UnitEnqueue(t, k, TRUE) \/ UnitMark(t, k) \/ UnitCheck(t, k)
                        \/ UnitExit(t, k))
    /\ SF_vars(\E t \in Tasks, k \in Slots : RetireRecv(t, k))
    /\ WF_vars(RetireTick)
    /\ SF_vars(RetireDelete)
    /\ WF_vars(RetireDefault)

SpecHealthy == InitHealthy /\ [][NextHealthy]_vars /\ FairHealthy

\* ------------------------------------------- every process at work, fairly
\* t1 is registered and the scheduler is running; a caller registers t3 and a user
\* sets a recurrence on t1, within one instant of the clock, while Enqueue succeeds
\* or fails.
InitBusy == Setup([i \in Ids |-> IF i = "a" THEN "t1" ELSE NoTask], OneShots, TRUE)

NextBusy ==
    \/ AddCall("c1", <<"t3">>)
    \/ AddCheck("c1")
    \/ AddWrite("c1")
    \/ SetRecurrence("t1", "UNTIL=2")
    \/ DispatchTick
    \/ \E t \in Tasks : DispatchTask(t)
    \/ DispatchEnd
    \/ \E t \in Tasks, k \in Slots, ok \in BOOLEAN : UnitEnqueue(t, k, ok)
    \/ \E t \in Tasks, k \in Slots : UnitMark(t, k)
    \/ \E t \in Tasks, k \in Slots : UnitCheck(t, k)
    \/ \E t \in Tasks, k \in Slots : UnitExit(t, k)
    \/ RetireTick
    \/ \E t \in Tasks, k \in Slots : RetireRecv(t, k)
    \/ RetireDelete
    \/ RetireDefault

\* Every goroutine that can run eventually does, both timers keep firing, a caller
\* inside Add goes on, and a goroutine waiting in s.lock.Lock() gets the lock
\* (sync.RWMutex holds back new readers while a writer waits).
FairBusy ==
    /\ WF_vars(AddCheck("c1"))
    /\ SF_vars(AddWrite("c1"))
    /\ WF_vars(DispatchTick)
    /\ WF_vars(\E t \in Tasks : DispatchTask(t))
    /\ WF_vars(DispatchEnd)
    /\ \A t \in {"t1", "t3"} :
           /\ WF_vars(\E k \in Slots :
                          \/ \E ok \in BOOLEAN : UnitEnqueue(t, k, ok)
                          \/ UnitMark(t, k)
                          \/ UnitCheck(t, k)
                          \/ UnitExit(t, k))
           /\ SF_vars(\E k \in Slots : RetireRecv(t, k))
    /\ WF_vars(RetireTick)
    /\ SF_vars(RetireDelete)
    /\ WF_vars(RetireDefault)

SpecBusy == InitBusy /\ [][NextBusy]_vars /\ FairBusy

\* ------------------------------------------------ registration before Start
\* Callers register tasks before Start, some of them with the empty id; t1 is only
\* passed after a task with the empty id, in the same call.
AddLists == {<<"t0">>, <<"t0", "t1">>, <<"t2", "t0">>, <<"t3">>}

NextAdd ==
    \/ \E c \in Callers, args \in AddLists : AddCall(c, args)
    \/ \E c \in Callers : AddCheck(c)
    \/ \E c \in Callers : AddWrite(c)

SpecAdd == Init /\ [][NextAdd]_vars

\* ------------------------------------------------------- the worker handler
\* A worker runs the handler of Worker(job) once; the queue hands it messages and
\* errors in any order.
NextWorker ==
    \/ \E notify \in BOOLEAN : WorkerStart(notify)
    \/ \E res \in DequeueResults : WorkerDequeue(res)
    \/ \E m \in Msgs : HandlerDecode(m)
    \/ \E m \in Msgs : HandlerJob(m)
    \/ \E m \in Msgs, ok \in BOOLEAN : HandlerAck(m, ok)

SpecWorker == Init /\ [][NextWorker]_vars

\* ------------------------------------------------------------- Start and Stop
\* t1 is registered as a one-shot task; Start and Stop are called in any order.
InitLife == Setup([i \in Ids |-> IF i = "a" THEN "t1" ELSE NoTask], OneShots, FALSE)

NextLife ==
    \/ StartCall
    \/ RunInit
    \/ RunExit
    \/ StartRecv1
    \/ WaiterStop
    \/ StartRecv2
    \/ Stop
    \/ DispatchTick
    \/ DispatchExit
    \/ \E t \in Tasks : DispatchTask(t)
    \/ DispatchEnd
    \/ \E t \in Tasks, k \in Slots, ok \in BOOLEAN : UnitEnqueue(t, k, ok)
    \/ \E t \in Tasks, k \in Slots : UnitEnqueueCanceled(t, k)
    \/ \E t \in Tasks, k \in Slots : UnitMark(t, k)
    \/ \E t \in Tasks, k \in Slots : UnitCheck(t, k)
    \/ \E t \in Tasks, k \in Slots : UnitExit(t, k)
    \/ RetireTick
    \/ RetireExit
    \/ \E t \in Tasks, k \in Slots : RetireRecv(t, k)
    \/ RetireDelete
    \/ RetireDefault

SpecLife == InitLife /\ [][NextLife]_vars

\* The goroutines of Start are scheduled fairly; the callers of Start and Stop, the
\* timers and the queue are not constrained.
FairLife ==
    /\ WF_vars(RunInit)
    /\ WF_vars(RunExit)
    /\ WF_vars(StartRecv1)
    /\ WF_vars(WaiterStop)
    /\ WF_vars(StartRecv2)

SpecLifeFair == SpecLife /\ FairLife

\* Every goroutine of the scheduler is scheduled fairly as well: the sweeps, the
\* dispatch goroutines and the selects, which take a ready case infinitely often.
FairSweeps ==
    /\ WF_vars(DispatchTick)
    /\ SF_vars(DispatchExit)
    /\ WF_vars(\E t \in Tasks : DispatchTask(t))
    /\ WF_vars(DispatchEnd)
    /\ WF_vars(\/ \E t \in Tasks, k \in Slots, ok \in BOOLEAN : UnitEnqueue(t, k, ok)
               \/ \E t \in Tasks, k \in Slots : UnitEnqueueCanceled(t, k)
               \/ \E t \in Tasks, k \in Slots : UnitMark(t, k)
               \/ \E t \in Tasks, k \in Slots : UnitCheck(t, k)
               \/ \E t \in Tasks, k \in Slots : UnitExit(t, k))
    /\ WF_vars(RetireTick)
    /\ SF_vars(RetireExit)
    /\ SF_vars(\E t \in Tasks, k \in Slots : RetireRecv(t, k))
    /\ SF_vars(RetireDelete)
    /\ WF_vars(RetireDefault)

SpecShutdown == SpecLife /\ FairLife /\ FairSweeps

\* ------------------------------------------------------------------ claims
Ledger == {tasks[i] : i \in Ids} \ {NoTask}
OneShot(t) == Schedule[t].Recurrence = ""
Rule(t) == StrToRRule(Schedule[t].Recurrence)
Capped(t) == ~OneShot(t) /\ ~Rule(t).err /\ Rule(t).count # 0
\* the series end of a task's schedule (none for a one-shot task)
Until(t) == IF OneShot(t) \/ Rule(t).err THEN NoUntil ELSE Rule(t).until

\* C1: at most one dispatch unit of work is in flight for a task at any time: a later
\* tick starts no second dispatch of a task whose unit has not released the task lock.
C1_OneDispatchInFlight == \A t \in Tasks : Cardinality(InFlight(t)) <= 1

\* a unit of an earlier tick is still in Enqueue and a later tick found the task locked
C1_Witness ==
    \E t \in Tasks, k \in Slots :
        /\ unit[t][k].pc = "enq"
        /\ dsweep.now > unit[t][k].now
        /\ hist.lost[t]

\* C3: for a one-shot task CanSchedule is true iff count = 0; the task is dispatched
\* at most once, its count never exceeds 1, and once it has been dispatched every
\* CanSchedule evaluation (made with the task lock held) is false.
C3_OneShotOnce ==
    \A t \in Tasks : OneShot(t) =>
        /\ \A now \in 1..MaxTime : CanSchedule(t, now) <=> Schedule[t].Count = 0
        /\ enqueued[t] <= 1
        /\ Schedule[t].Count <= 1
        /\ (enqueued[t] >= 1 /\ Lock(lock[t]).ok
                => \A now \in 1..MaxTime : ~CanSchedule(t, now))

\* a one-shot task was dispatched and a later tick locked it and found it not due
C3_Witness ==
    \E t \in Tasks :
        OneShot(t) /\ enqueued[t] = 1 /\ Schedule[t].Count = 1 /\ t \in dsweep.skip

\* C4: a task whose rule has occurrence cap N is complete exactly when N dispatches
\* have succeeded: IsComplete is false while count < N, true once count = N, at that
\* point N enqueues have succeeded, and count never exceeds N.
C4_CapReached ==
    \A t \in Tasks : Capped(t) /\ clock <= Until(t) =>
        /\ Schedule[t].Count <= Rule(t).count
        /\ enqueued[t] <= Rule(t).count
        /\ IsComplete(t, clock) <=> Schedule[t].Count = Rule(t).count
        /\ IsComplete(t, clock) => enqueued[t] = Rule(t).count

\* the N-th dispatch was found complete and handed to the retirement sweep
C4_Witness ==
    \E t \in Tasks :
        /\ Capped(t)
        /\ Schedule[t].Count = Rule(t).count
        /\ enqueued[t] = Rule(t).count
        /\ t \in hist.observed

\* the Enqueue of unit k of task t returns an error in this step
EnqueueFails(t, k) == unit[t][k].pc = "enq" /\ unit'[t][k].err
\* the unit whose Enqueue failed runs its deferred function in this step
FailedExit(t, k) == unit[t][k].err /\ unit'[t][k].pc = "none"

\* what a failed Enqueue leaves alone: the schedule, the ledger, the relay
FailureFrame(t, k) ==
    /\ EnqueueFails(t, k) =>
            Schedule'[t] = Schedule[t] /\ tasks' = tasks /\ enqueued' = enqueued
    /\ unit[t][k].err =>
            /\ unit'[t][k].pc \in {"done", "none"}
            /\ Schedule'[t] = Schedule[t]
    /\ FailedExit(t, k) => tasks' = tasks /\ Lock(lock'[t]).ok

C2_TryLock ==
    \A t \in Tasks :
        /\ hist.wins[t] <= 1
        /\ hist.lost[t] => hist.wins[t] = 1

\* a user's Lock of the unregistered task succeeded and a second Lock was refused
C2_Witness == hist.wins["t2"] = 1 /\ hist.lost["t2"] /\ lock["t2"] = 0

\* C5 as stated: a task leaves the ledger only if the dispatch sweep has seen it
\* complete, and never while CanSchedule could return true now or later.
C5_AsStated ==
    [][\A i \in Ids : tasks[i] # NoTask /\ tasks'[i] = NoTask =>
          /\ tasks[i] \in hist.observed
          /\ \A now \in clock..MaxTime : ~CanSchedule(tasks[i], now)]_vars

\* C6 as stated: when Stop was called (once) while Start was running and Start has
\* returned, both loops have exited and no dispatch unit of work is in flight.
C6_AsStated ==
    life.start = "returned" /\ hist.stopReq = "wait1" /\ hist.nStops = 1 =>
        /\ dsweep.pc = "done"
        /\ rsweep.pc = "done"
        /\ \A t \in Tasks : InFlight(t) = {}

\* C8: when Add finds the id of its task in the ledger it changes nothing: the
\* ledger, the schedules and the locks stay as they are and no store follows.
C8_DuplicateAddNoOp ==
    [][\A c \in Callers :
          (/\ adder[c].pc = "check"
           /\ adder'[c] # adder[c]
           /\ tasks[Id(Head(adder[c].args))] # NoTask)
          => /\ tasks' = tasks
             /\ Schedule' = Schedule
             /\ lock' = lock
             /\ adder'[c].pc # "write"]_vars

\* t2 was offered under the id of t1, which stays registered
C8_Witness ==
    \E c \in Callers :
        adder[c].log = "already" /\ adder[c].task = "t2" /\ tasks["a"] = "t1"

\* C11: a SetRecurrence call with a string that does not parse returns an error and
\* leaves every schedule as it is; a call with a string that parses returns nil and
\* replaces the recurrence of its task only: count, updatedAt and the schedules of
\* the other tasks stay as they are.
C11_SetRecurrence ==
    [][hist'.nSetRec # hist.nSetRec =>
          \A t \in Tasks, rfc \in RuleStrings : SetRecurrence(t, rfc) =>
              IF StrToRRule(rfc).err
              THEN hist'.setErr /\ Schedule' = Schedule
              ELSE /\ ~hist'.setErr
                   /\ Schedule'[t].Recurrence = rfc
                   /\ Schedule'[t].Count = Schedule[t].Count
                   /\ Schedule'[t].UpdatedAt = Schedule[t].UpdatedAt
                   /\ \A u \in Tasks \ {t} : Schedule'[u] = Schedule[u]]_vars

\* a call on a task that has been dispatched once was refused: its schedule is intact
C11_Witness ==
    /\ hist.setErr
    /\ hist.nSetRec = 1
    /\ \E t \in RecTasks : Schedule[t].Recurrence = "" /\ Schedule[t].Count = 1

\* C12: with a healthy queue and a scheduler that keeps running, a registered one-shot
\* task is eventually out of the ledger with exactly one enqueue and count 1, it is
\* never enqueued twice, and every task a dispatch goroutine offers on the completed
\* relay is eventually out of the ledger.
C12_EventuallyRetired ==
    \A t \in {"t1", "t3"} :
        /\ [](OneShot(t) => enqueued[t] <= 1)
        /\ (OneShot(t) /\ t \in Ledger)
                ~> (t \notin Ledger /\ enqueued[t] = 1 /\ Schedule[t].Count = 1)
        /\ (t \in Offering) ~> (t \notin Ledger)

\* the one-shot task t1 has been enqueued once, observed complete and removed
C12_Witness ==
    /\ tasks["a"] = NoTask
    /\ "t1" \in hist.observed
    /\ enqueued["t1"] = 1
    /\ Schedule["t1"].Count = 1

\* C13: a dequeued message is acknowledged at most once and exactly once when its
\* goroutine has ended, whether its payload decodes or not; job is never called for a
\* payload that does not decode and exactly once, before the Ack, for one that does.
C13_AckOnce ==
    \A m \in Msgs :
        LET h == worker.msg[m]
        IN  /\ (h.pc # "none") <=> (m <= worker.n)
            /\ h.acks <= 1
            /\ h.acks = 1 <=> h.pc = "done"
            /\ h.jobs = IF h.decodes /\ h.pc \in {"ack", "done"} THEN 1 ELSE 0

\* a message that does not decode and one that does have both been acknowledged
C13_Witness ==
    \E m, d \in Msgs :
        /\ worker.msg[m].pc = "done" /\ ~worker.msg[m].decodes
        /\ worker.msg[m].acks = 1 /\ worker.msg[m].jobs = 0
        /\ worker.msg[d].pc = "done" /\ worker.msg[d].decodes
        /\ worker.msg[d].acks = 1 /\ worker.msg[d].jobs = 1

\* C14: after a Dequeue call has returned an error the handler makes no further
\* Dequeue call; the step of the failed call ends the loop, passes the error to the
\* error sink only if it is fatal, and calls the notification callback (when one is
\* configured) once with no message.
C14_DequeueErrorEndsLoop ==
    [][/\ worker.failed >= 1 => worker'.calls = worker.calls /\ worker'.n = worker.n
       /\ worker'.failed # worker.failed =>
             /\ worker'.failed = 1
             /\ worker'.pc = "finished"
             /\ worker'.sent = IF worker'.fatal THEN 1 ELSE 0
             /\ worker'.nilNotes = IF worker.notify THEN 1 ELSE 0
       /\ worker'.failed = worker.failed =>
             worker'.sent = worker.sent /\ worker'.nilNotes = worker.nilNotes]_vars

\* a timeout ended the loop after a message had been dequeued: nothing was sent to the
\* error sink, the callback was called with no message, the goroutine still runs
C14_Witness ==
    /\ worker.pc = "finished"
    /\ worker.failed = 1 /\ ~worker.fatal /\ worker.sent = 0
    /\ worker.notify /\ worker.nilNotes = 1
    /\ worker.n = 1
    /\ worker.msg[1].pc = "decode"

\* C15: when Add comes to a task with the empty id it leaves the ledger as it is and
\* goes on with the remaining tasks of the call (or returns when there is none), and
\* the ledger never has an entry under the empty id.
C15_EmptyIdRejected ==
    [][/\ tasks'[""] = NoTask
       /\ \A c \in Callers :
             (/\ adder[c].pc = "check"
              /\ adder'[c] # adder[c]
              /\ Id(Head(adder[c].args)) = "")
             => /\ tasks' = tasks
                /\ adder'[c].args = Tail(adder[c].args)
                /\ adder'[c].pc = IF Tail(adder[c].args) = <<>> THEN "idle" ELSE "check"]_vars

\* a call Add(t0, t1) has returned: t1, passed after the empty id, is registered
C15_Witness ==
    /\ tasks["a"] = "t1"
    /\ tasks[""] = NoTask
    /\ \E c \in Callers :
          adder[c].pc = "idle" /\ adder[c].task = "t1" /\ adder[c].log = "added"

\* C16: the lock of a task holds 0 or 1 tokens in every reachable state, and NewTask
\* leaves 1 token in it, so that a first Lock succeeds.
C16_LockSlot ==
    /\ NewTask = 1
    /\ Lock(NewTask).ok
    /\ \A t \in Tasks : lock[t] \in {0, 1}

\* the registered task is locked by its dispatch goroutine and the other one by a
\* user whose second Lock was refused: both locks hold no token
C16_Witness ==
    /\ lock["t1"] = 0 /\ InFlight("t1") # {}
    /\ lock["t2"] = 0 /\ hist.lost["t2"]

\* C17: a task's count is at most the number of its successful enqueues and at least
\* that number minus one; the two differ only while the goroutine whose Enqueue has
\* succeeded has not yet called MarkScheduled, and they are equal whenever no
\* dispatch goroutine of the task is in flight.
C17_CountFollowsEnqueue ==
    \A t \in Tasks :
        /\ Schedule[t].Count <= enqueued[t]
        /\ enqueued[t] <= Schedule[t].Count + 1
        /\ enqueued[t] # Schedule[t].Count => \E k \in Slots : unit[t][k].pc = "mark"
        /\ InFlight(t) = {} => Schedule[t].Count = enqueued[t]

\* the second Enqueue of a task has succeeded and MarkScheduled has not run yet
C17_Witness ==
    \E t \in Tasks, k \in Slots :
        unit[t][k].pc = "mark" /\ enqueued[t] = 2 /\ Schedule[t].Count = 1

\* C18: a task's count never decreases, and count or updatedAt change only in the
\* MarkScheduled step of a dispatch goroutine of that task, which adds 1 to count,
\* sets updatedAt to the timestamp of the goroutine's sweep and leaves the recurrence;
\* no step of Add, SetRecurrence, the sweeps or the retirement changes either field.
C18_OnlyMarkScheduled ==
    [][\A t \in Tasks :
          /\ Schedule'[t].Count >= Schedule[t].Count
          /\ (\/ Schedule'[t].Count # Schedule[t].Count
              \/ Schedule'[t].UpdatedAt # Schedule[t].UpdatedAt)
             => \E k \in Slots :
                    /\ unit[t][k].pc = "mark"
                    /\ unit'[t][k].pc = "check"
                    /\ Schedule'[t].Count = Schedule[t].Count + 1
                    /\ Schedule'[t].UpdatedAt = unit[t][k].now
                    /\ Schedule'[t].Recurrence = Schedule[t].Recurrence]_vars

\* the second MarkScheduled of a task has stored the timestamp of its sweep, which
\* is older than the current time
C18_Witness ==
    \E t \in Tasks, k \in Slots :
        /\ unit[t][k].pc = "check"
        /\ Schedule[t].Count = 2
        /\ Schedule[t].UpdatedAt = unit[t][k].now
        /\ unit[t][k].now < clock

\* C19 as stated: a dispatch goroutine that is in flight when Stop is requested runs
\* to its end (it is never left offering its task on the completed relay after the
\* retirement loop has exited) and its Enqueue never fails because of the
\* cancellation that Stop triggers.
C19_AsStated ==
    \A t \in Tasks, k \in Slots : unit[t][k].preStop =>
        /\ ~unit[t][k].canceled
        /\ unit[t][k].pc = "send" => rsweep.pc # "done"

\* C20 as stated: once the ledger maps an id to a task object, no step of an Add call
\* puts another object under that id.
C20_AsStated ==
    [][\A i \in Ids :
          tasks[i] # NoTask /\ tasks'[i] # NoTask => tasks'[i] = tasks[i]]_vars

\* C21: every lock the dispatch sweep takes is released again, on every exit path
\* and also when shutdown is requested while the dispatch is in flight: no task
\* stays locked forever.
C21_AsStated == \A t \in Tasks : (lock[t] = 0) ~> (lock[t] = 1)

\* C22: a task is handed to the completed relay at most once in its lifetime, even
\* when the dispatch sweep evaluates it again before the retirement sweep has
\* deleted it: a task the retirement sweep receives was never received before.
C22_AsStated ==
    [][\A t \in Tasks, k \in Slots : RetireRecv(t, k) => t \notin hist.observed]_vars

\* C23: the retirement sweep removes a task only after a dispatch goroutine handed
\* it over, and at the moment a task leaves the ledger its count is at least 1 and
\* equals the number of its successful enqueues.
C23_AsStated ==
    [][\A t \in Tasks :
          (t \in Ledger /\ t \notin Ledger') =>
              /\ t \in hist.observed
              /\ Schedule[t].Count >= 1
              /\ Schedule[t].Count = enqueued[t]]_vars

\* C24: a stalled enqueue never delays the dispatch sweep: while the goroutine of
\* a task is inside Enqueue or is offering the task on the relay, the sweep can
\* evaluate every other task of the same tick, can end the tick, and the next
\* tick can fire.
C24_SweepNeverWaits ==
    \A a \in Tasks :
        (\E k \in Slots : unit[a][k].pc \in {"enq", "send"}) =>
            /\ dsweep.pc = "select" => ENABLED DispatchTick
            /\ dsweep.pc = "range" =>
                   /\ \A t \in dsweep.todo \ {a} : ENABLED DispatchTask(t)
                   /\ dsweep.todo = {} => ENABLED DispatchEnd

\* t1's goroutine is still inside the Enqueue of an earlier tick while a later tick
\* has already evaluated t3.
C24_Witness ==
    \E k \in Slots :
        /\ unit["t1"][k].pc = "enq"
        /\ unit["t1"][k].now < dsweep.now
        /\ dsweep.pc = "range"
        /\ "t3" \in Ledger
        /\ "t3" \notin dsweep.todo

\* C25: with a notify callback configured the dispatch sweep calls it exactly once
\* for every task lock it acquires, after the Unlock, and never for a task whose
\* Lock() failed: the locks acquired on a task are the notify calls made for it
\* plus the dispatches of it still in flight, which hold the lock.
C25_NotifyPerLock ==
    \A t \in Tasks :
        /\ hist.owed[t] = Cardinality(InFlight(t))
        /\ hist.owed[t] = 1 - lock[t]

\* In one tick a task was skipped and notified, another task's Lock() failed
\* because its dispatch is in flight, after an earlier dispatch of it was notified.
C25_Witness ==
    /\ dsweep.skip # {}
    /\ \E u \in Tasks :
           /\ hist.lost[u]
           /\ hist.owed[u] = 1
           /\ Schedule[u].Count >= 1
           /\ \E k \in Slots : unit[u][k].pc = "enq"

\* the latest occurrence of t's rule at or before x, if there is one
LatestOccurrence(t, x) ==
    LET past == {o \in Occurrences(Rule(t)) : o <= x}
    IN  IF past = {} THEN <<>> ELSE <<Max(past)>>

\* C26: for a task whose recurrence parses, CanSchedule(now) is false if the rule
\* has an occurrence cap and count has reached it, false if now is after the
\* series end, false if the latest occurrence at or before now is the latest
\* occurrence at or before updatedAt (also when neither exists), and true
\* otherwise; the sweep's CanSchedule changes nothing in the schedule.
C26_CanSchedule ==
    /\ [](\A t \in Tasks, now \in 0..MaxTime :
             (~OneShot(t) /\ ~Rule(t).err) =>
                 CanSchedule(t, now) =
                     IF Rule(t).count # 0 /\ Schedule[t].Count >= Rule(t).count THEN FALSE
                     ELSE IF now > Rule(t).until THEN FALSE
                     ELSE IF LatestOccurrence(t, now) =
                                 LatestOccurrence(t, Schedule[t].UpdatedAt) THEN FALSE
                     ELSE TRUE)
    /\ [][\A t \in Tasks : DispatchTask(t) => Schedule' = Schedule]_vars

\* t1 has been dispatched once under an UNTIL rule: the occurrence at 2 is due, at
\* 1 nothing new is due and 3 is past the series end; t3 has reached its cap.
C26_Witness ==
    /\ Schedule["t1"].Recurrence = "UNTIL=2"
    /\ Schedule["t1"].Count = 1
    /\ Schedule["t1"].UpdatedAt = 1
    /\ CanSchedule("t1", 2)
    /\ ~CanSchedule("t1", 1)
    /\ ~CanSchedule("t1", 3)
    /\ Schedule["t3"].Recurrence = "COUNT=2"
    /\ Schedule["t3"].Count = 2
    /\ \A now \in 0..MaxTime : ~CanSchedule("t3", now)
    /\ "t3" \in dsweep.skip

\* C27: IsComplete is, for an empty recurrence, true iff count is not 0; for a
\* recurrence that parses, true iff the occurrence cap has been reached or the
\* current time is past the series end; for a recurrence that fails to parse,
\* true; the goroutine's IsComplete check changes nothing but its own position.
C27_IsComplete ==
    /\ [](\A t \in Tasks, now \in 0..MaxTime :
             IsComplete(t, now) =
                 CASE OneShot(t)  -> Schedule[t].Count # 0
                   [] ~OneShot(t) /\ ~Rule(t).err ->
                          \/ Capped(t) /\ Schedule[t].Count >= Rule(t).count
                          \/ now > Rule(t).until
                   [] OTHER       -> TRUE)
    /\ [][\A t \in Tasks, k \in Slots :
             UnitCheck(t, k) =>
                 UNCHANGED <<clock, tasks, lock, Schedule, enqueued, hist>>]_vars

\* t1 was dispatched once under an UNTIL rule and found complete once the clock had
\* passed the series end, while it would not have been at 2; t3, whose recurrence
\* does not parse, counts as complete without any dispatch.
C27_Witness ==
    /\ Schedule["t1"].Recurrence = "UNTIL=2"
    /\ Schedule["t1"].Count = 1
    /\ clock = 3
    /\ \E k \in Slots : unit["t1"][k].pc = "send"
    /\ ~IsComplete("t1", 2)
    /\ Schedule["t3"].Recurrence = "bad"
    /\ Schedule["t3"].Count = 0
    /\ IsComplete("t3", clock)

\* C28: a ledger task whose non-empty recurrence fails to parse is never enqueued,
\* its count never changes and it is never removed: every sweep that reaches it
\* locks it, finds CanSchedule false and unlocks it.
C28_Inert ==
    \A t \in Tasks :
        (~OneShot(t) /\ Rule(t).err) =>
            /\ tasks[Id(t)] = t
            /\ enqueued[t] = 0
            /\ Schedule[t] = [Recurrence |-> "bad", Count |-> 0, UpdatedAt |-> 0]
            /\ InFlight(t) = {}
            /\ t \notin hist.observed
            /\ lock[t] = 1
            /\ (dsweep.pc = "range" /\ t \notin dsweep.todo) => t \in dsweep.skip

\* At the last instant of the clock a sweep has just skipped t3 again, while t1,
\* registered with it, has been dispatched and retired.
C28_Witness ==
    /\ Schedule["t3"].Recurrence = "bad"
    /\ clock = MaxTime
    /\ dsweep.now = MaxTime
    /\ "t3" \in dsweep.skip
    /\ "t1" \notin Ledger
    /\ enqueued["t1"] >= 1

\* C29: a retirement tick never waits for a future item: while it drains, either
\* a goroutine is offering a task and the receive can be taken, or nothing is
\* offered and the loop can stop; what it deletes is the entry of the task it has
\* just received; it stops only when nothing is offered; firing and stopping
\* change nothing but the sweep's own position; and every drain ends.
C29_DrainNeverWaits ==
    /\ [](rsweep.pc = "drain" =>
             IF Offering # {}
             THEN (ENABLED \E t \in Tasks, k \in Slots : RetireRecv(t, k))
                  /\ ~ENABLED RetireDefault
             ELSE ENABLED RetireDefault)
    /\ [][RetireDelete =>
             /\ rsweep.task \in hist.observed
             /\ tasks' = [tasks EXCEPT ![Id(rsweep.task)] = NoTask]]_vars
    /\ [][(RetireTick \/ RetireDefault) =>
             UNCHANGED <<clock, tasks, lock, Schedule, unit, dsweep, enqueued, hist>>]_vars
    /\ (rsweep.pc = "drain") ~> (rsweep.pc = "select")

\* The tick has received and removed t1, nothing else is offered and t3 is still
\* registered: the drain is about to stop.
C29_Witness ==
    /\ rsweep.pc = "drain"
    /\ Offering = {}
    /\ "t1" \in hist.observed
    /\ "t1" \notin Ledger
    /\ "t3" \in Ledger

\* C30: Unlock() never blocks, and on a task that is already unlocked it leaves the
\* lock as it is: after any number of Unlock() calls in a row the lock holds one
\* token, so exactly one following Lock() succeeds and the next one fails.
C30_UnlockIdempotent ==
    /\ [](\A t \in LockUsers :
             /\ ENABLED UnlockCall(t)
             /\ hist.unlocks[t] >= 1 =>
                    /\ hist.wins[t] <= 1
                    /\ hist.lost[t] => hist.wins[t] = 1
                    /\ (hist.wins[t] = 0) = (lock[t] = 1)
                    /\ lock[t] = 1 => (Lock(lock[t]).ok /\ ~Lock(Lock(lock[t]).n).ok))
    /\ [][\A t \in LockUsers :
             UnlockCall(t) => /\ lock'[t] = 1
                              /\ lock[t] = 1 => lock' = lock]_vars

\* After two Unlock() calls in a row on t2 one Lock() has succeeded and a second
\* one has failed.
C30_Witness ==
    /\ hist.unlocks["t2"] = 2
    /\ hist.wins["t2"] = 1
    /\ hist.lost["t2"]
    /\ lock["t2"] = 0

\* C31: several Stop calls during one run of Start have the effect of one: when
\* every Stop was called while Start was running, Start has returned only after
\* the completion barrier was released, and once its goroutine has finished too
\* no stop signal is left in the buffer.
C31_AsStated ==
    (life.start = "returned" /\ hist.stopReq = "wait1" /\ ~hist.lateStop) =>
        /\ life.wg = 0
        /\ life.waiter = "done" => stop = 0

\* C32: while the scheduler is running nothing deadlocks: in every state some
\* goroutine of the scheduler can take a step, and every waiting process goes on:
\* a dispatch sweep ends its range, a dispatch goroutine exits and releases the
\* task lock, a goroutine offering on the relay is received, the retirement sweep
\* gets the write lock and returns to its select, and a caller inside Add returns.
C32_NoDeadlock ==
    /\ [](ENABLED (\/ DispatchTick
                   \/ \E t \in Tasks : DispatchTask(t)
                   \/ DispatchEnd
                   \/ \E t \in Tasks, k \in Slots, ok \in BOOLEAN : UnitEnqueue(t, k, ok)
                   \/ \E t \in Tasks, k \in Slots : UnitMark(t, k)
                   \/ \E t \in Tasks, k \in Slots : UnitCheck(t, k)
                   \/ \E t \in Tasks, k \in Slots : UnitExit(t, k)
                   \/ RetireTick
                   \/ \E t \in Tasks, k \in Slots : RetireRecv(t, k)
                   \/ RetireDelete
                   \/ RetireDefault))
    /\ (dsweep.pc = "range") ~> (dsweep.pc = "select")
    /\ \A t \in {"t1", "t3"} : (lock[t] = 0) ~> (lock[t] = 1)
    /\ (Offering # {}) ~> (Offering = {})
    /\ (rsweep.pc # "select") ~> (rsweep.pc = "select")
    /\ (adder["c1"].pc # "idle") ~> (adder["c1"].pc = "idle")

\* The retirement sweep waits for the write lock to delete t1 while the dispatch
\* sweep holds the read lock, the caller of Add waits to store t3, and t1's
\* goroutine has not released the task lock yet.
C32_Witness ==
    /\ rsweep.pc = "delete"
    /\ dsweep.pc = "range"
    /\ adder["c1"].pc = "write"
    /\ lock["t1"] = 0

\* C33: for a task with a rule no two successful dispatches belong to the same
\* occurrence: when a dispatch is recorded, the latest occurrence at or before
\* its sweep timestamp exists and is later than the latest occurrence at or
\* before the timestamp of the previous successful dispatch, however many
\* ticks fell inside one occurrence interval.
C33_OncePerOccurrence ==
    [][\A t \in Tasks, k \in Slots :
          (UnitMark(t, k) /\ ~OneShot(t)) =>
              /\ Before(Rule(t), unit[t][k].now) \in Occurrences(Rule(t))
              /\ Before(Rule(t), unit[t][k].now) > Before(Rule(t), Schedule[t].UpdatedAt)
              /\ Schedule'[t].UpdatedAt = unit[t][k].now]_vars

\* t1 has been dispatched for the occurrences at 1 and at 2 of its rule, and a
\* further tick at 2 has skipped it.
C33_Witness ==
    /\ Schedule["t1"] = [Recurrence |-> "UNTIL=2", Count |-> 2, UpdatedAt |-> 2]
    /\ enqueued["t1"] = 2
    /\ dsweep.now = 2
    /\ "t1" \in dsweep.skip

\* C34: IsComplete is evaluated only right after a successful dispatch, so a task
\* that can never be scheduled again but was never successfully dispatched by this
\* scheduler is never placed on the relay and never removed from the ledger.
C34_NeverDispatchedStays ==
    \A t \in Tasks :
        /\ (\E k \in Slots : unit[t][k].pc \in {"check", "send"}) => enqueued[t] >= 1
        /\ (t \in {"t1", "t3"} /\ enqueued[t] = 0) =>
               /\ tasks[Id(t)] = t
               /\ t \notin Offering
               /\ t \notin hist.observed
               /\ rsweep.task # t

\* After the series end of t1, which has no successful Enqueue, and with t3
\* registered at its cap, a sweep has skipped both: both count as complete and
\* both are still registered.
C34_Witness ==
    /\ clock = 3
    /\ dsweep.now = 3
    /\ dsweep.skip = {"t1", "t3"}
    /\ Schedule["t1"].Recurrence = "UNTIL=2"
    /\ enqueued["t1"] = 0
    /\ enqueued["t3"] = 0
    /\ IsComplete("t1", clock)
    /\ IsComplete("t3", clock)
    /\ \A now \in clock..MaxTime : ~CanSchedule("t1", now) /\ ~CanSchedule("t3", now)
    /\ {"t1", "t3"} \subseteq Ledger

\* C35: a Stop called before Start leaves its signal in the buffer and the next
\* Start consumes it: that Start cancels its sweep loops and returns, no further
\* Stop being needed, and the buffer is empty afterwards.
C35_StopBeforeStart ==
    /\ [](hist.stopReq = "created" /\ life.start \in {"created", "wait1"} => stop = 1)
    /\ [](hist.stopReq = "created" /\ hist.nStops = 1 /\ life.start = "returned" =>
             life.ctxDone /\ life.wg = 0 /\ stop = 0)
    /\ (hist.stopReq = "created" /\ life.start = "wait1") ~> (life.start = "returned")

\* Start has returned and the only Stop call was made before Start
C35_Witness ==
    /\ life.start = "returned"
    /\ hist.stopReq = "created"
    /\ hist.nStops = 1
    /\ rsweep.pc = "done"
    /\ dsweep.pc = "done"

C37_PayloadOneBehind ==
    /\ [](\A t \in Tasks :
             /\ hist.sent[t].Count = enqueued[t] - 1
             /\ hist.sent[t].UpdatedAt <= Schedule[t].UpdatedAt
             /\ enqueued[t] >= 1 =>
                    Schedule[t].Count \in {hist.sent[t].Count, hist.sent[t].Count + 1})
    /\ [][\A t \in Tasks, k \in Slots :
             UnitMark(t, k) =>
                 /\ hist.sent[t] = Payload(t)
                 /\ Schedule'[t].Count = hist.sent[t].Count + 1
                 /\ Schedule'[t].UpdatedAt = unit[t][k].now]_vars

\* The second dispatch of t1 is recorded with timestamp 2; its payload carries
\* count 1 and the timestamp 1 of the first dispatch.
C37_Witness ==
    /\ enqueued["t1"] = 2
    /\ hist.sent["t1"] = [Count |-> 1, UpdatedAt |-> 1]
    /\ Schedule["t1"].Count = 2
    /\ Schedule["t1"].UpdatedAt = 2

\* C38: the updatedAt values that successive MarkScheduled calls write to a task
\* never decrease: a later recorded dispatch carries a sweep timestamp that is not
\* earlier than that of the dispatch recorded before it, however ticks and
\* dispatch goroutines overlap.
C38_UpdatedAtMonotone ==
    [][\A t \in Tasks :
          /\ Schedule'[t].UpdatedAt >= Schedule[t].UpdatedAt
          /\ \A k \in Slots :
                 UnitMark(t, k) => Schedule'[t].UpdatedAt = unit[t][k].now]_vars

\* t1 was recorded at 1 and then at 2, while the goroutine that t3 got from an
\* earlier tick has still to record its dispatch during a later tick.
C38_Witness ==
    /\ Schedule["t1"].Count = 2
    /\ hist.sent["t1"].UpdatedAt = 1
    /\ Schedule["t1"].UpdatedAt = 2
    /\ \E k \in Slots : unit["t3"][k].pc = "mark" /\ unit["t3"][k].now < dsweep.now

\* C39: a task whose lock channel was never made cannot be locked: Lock() returns
\* false and Unlock() changes nothing, so such a task, once registered, is never
\* evaluated, never enqueued, never notified and never retired.
C39_NilLockInert ==
    \A t \in Tasks :
        lock[t] = NilLock =>
            /\ ~Lock(lock[t]).ok
            /\ Lock(lock[t]).n = NilLock
            /\ Unlock(lock[t]) = NilLock
            /\ hist.wins[t] = 0
            /\ hist.owed[t] = 0
            /\ t \notin dsweep.skip
            /\ InFlight(t) = {}
            /\ enqueued[t] = 0
            /\ Schedule[t] = [Recurrence |-> "", Count |-> 0, UpdatedAt |-> 0]
            /\ t \notin hist.observed
            /\ tasks[Id(t)] = t

\* Users have called Unlock twice on t3 and a Lock after that has failed; the
\* sweep has passed t3 by in its current tick, at a time when t1, registered next
\* to it, has already been dispatched and retired.
C39_Witness ==
    /\ lock["t3"] = NilLock
    /\ hist.unlocks["t3"] = 2
    /\ hist.lost["t3"]
    /\ dsweep.pc = "range"
    /\ dsweep.todo = {}
    /\ "t3" \in Ledger
    /\ "t1" \notin Ledger
    /\ enqueued["t1"] >= 1

C10_StartReturns ==
    /\ [](life.start \in {"wait2", "returned"} => hist.stopReq # "never")
    /\ (life.start \in {"wait1", "wait2"} /\ hist.stopReq # "never")
            ~> (life.start = "returned")

\* Start has returned after a single Stop, with a dispatch unit of work still pending
C10_Witness ==
    /\ life.start = "returned"
    /\ hist.stopReq = "wait1"
    /\ hist.nStops = 1
    /\ \E t \in Tasks : InFlight(t) # {}

====
